---- MODULE Spec2Model ----
(***************************************************************************)
(* Model of two parts of the repository:                                   *)
(*   - ConsistencyModelPipeline (pipeline_consistency_models.py): the      *)
(*     sampling call as a state machine over the scheduler's attributes;   *)
(*   - the BLIP-2 Q-Former (modeling_blip2.py): construction from a        *)
(*     config and the forward passes of the model, a layer and an          *)
(*     attention module, with tensors abstracted to shapes and to the      *)
(*     names of the tensors they were computed from.                       *)
(* The latents of the pipeline are integers in units of 1/4; sigmas are    *)
(* integers in units of 1/2 (so sigma_data = 0.5 is 1).  What the network  *)
(* and denoise compute from a sample is kept as its terms.                 *)
(***************************************************************************)
EXTENDS Integers, Sequences, FiniteSets, TLC

\* ---------------------------------------------------------------- bounds
MaxSteps == 3
MaxSample == 2
MaxHidden == 3
MaxHeads == 2
MaxFreq == 2
MaxLayers == 3
MaxQuery == 2
MaxBatch == 2
MaxText == 2

\* ------------------------------------------------------------- variables
VARIABLES
    schedAttrs,         \* attribute names the registered scheduler has
    schedSigmaMinMax,   \* scheduler.sigma_min / scheduler.sigma_max, where it has them
    schedSigmas,        \* scheduler.sigmas / scheduler.schedule
    timesteps,          \* scheduler.timesteps
    setTimestepsCalls,  \* number of scheduler.set_timesteps calls
    pc,                 \* position inside __call__
    args,               \* arguments of the running __call__
    sample,             \* local `sample`
    sigma_min,          \* local `sigma_min`
    loopIdx,            \* enumerate index i of the Karras loop (1-based)
    unetCalls,          \* number of self.unet(...) evaluations
    stepCalls,          \* number of scheduler.step calls
    addNoiseCalls,      \* number of scheduler.add_noise_to_input calls
    events,             \* order of the calls made by __call__
    lastDenoise,        \* outcome of the most recent denoise call
    result,             \* how __call__ ended
    images,             \* returned images
    retval,             \* the value __call__ returned
    stepParams,         \* which of eta, generator scheduler.step accepts
    extraStepKwargs,    \* local `extra_step_kwargs`
    stepKwargsLog,      \* keyword arguments of each scheduler.step call
    qfStatus,           \* Blip2QFormerModel: "unbuilt", "built" or the error
    qfConfig,           \* the config the model was built from
    qfLayers,           \* encoder.layer: one record per Blip2QFormerLayer
    qfOut,              \* outcome of the most recent forward call
    visAttn,            \* the most recently constructed Blip2Attention
    mhaAttn,            \* ... and Blip2QFormerMultiHeadAttention
    mhaOut,             \* outcome of the most recent direct forward of it
    lyr,                \* the most recently constructed Blip2QFormerLayer
    lyrOut,             \* outcome of the most recent direct forward of it
    own,                \* owned state of a Blip2QFormerModel instance
    ownPrev,            \* its owned state before the most recent operation
    ownOp,              \* the most recent operation on it and how it ended
    fnOut               \* most recent call of a tensor function and its result

pipeVars == <<schedAttrs, schedSigmaMinMax, schedSigmas, timesteps, setTimestepsCalls, pc, args,
              sample, sigma_min, loopIdx, unetCalls, stepCalls, addNoiseCalls,
              events, lastDenoise, result, images, retval, stepParams,
              extraStepKwargs, stepKwargsLog>>

qfVars == <<qfStatus, qfConfig, qfLayers, qfOut>>

attnVars == <<visAttn, mhaAttn, mhaOut>>

lyrVars == <<lyr, lyrOut>>

ownVars == <<own, ownPrev, ownOp>>

fnVars == <<fnOut>>

vars == <<pipeVars, qfVars, attnVars, lyrVars, ownVars, fnVars>>

\* ------------------------------------------------------- pure helpers
SchedulerAttrs == {"sigma_min", "sigma_max", "sigmas", "schedule", "add_noise_to_input"}

Clamp(x, lo, hi) == IF x < lo THEN lo ELSE IF x > hi THEN hi ELSE x

\* Python's binding of a call's arguments to a function's parameters:
\* nPos positional arguments (a bound method's self included) and the
\* keyword names kws against the parameter list params.
BindCall(params, required, nPos, kws) ==
    IF nPos > Len(params) THEN "TypeError"
    ELSE IF \E k \in kws : \A j \in 1..Len(params) : params[j] # k THEN "TypeError"
    ELSE IF \E j \in 1..nPos : params[j] \in kws THEN "TypeError"
    ELSE IF \E j \in (nPos + 1)..Len(params) :
                params[j] \in required /\ params[j] \notin kws THEN "TypeError"
    ELSE "ok"

\* get_scalings_for_boundary_condition(sigma, sigma_min, sigma_data):
\* c_skip as <<numerator, denominator>>; c_out and c_in as
\* <<numerator, radicand>>, standing for numerator / sqrt(radicand).
get_scalings_for_boundary_condition(sigma, smin, sigma_data) ==
    [c_skip |-> <<sigma_data * sigma_data,
                  (sigma - smin) * (sigma - smin) + sigma_data * sigma_data>>,
     c_out  |-> <<(sigma - smin) * sigma_data,
                  sigma * sigma + sigma_data * sigma_data>>,
     c_in   |-> <<1, sigma * sigma + sigma_data * sigma_data>>]

DenoiseParams == <<"self", "x_t", "sigma", "sigma_min", "sigma_data", "clip_denoised">>
ScalingParams == <<"sigma", "sigma_min", "sigma_data">>

NoDenoise == [status |-> "none"]

\* Faulty variant of denoise: the call binds sigma to the parameter
\* sigma_min.
denoise_sigmaAsMin(nPos, kws, x_t, sigma, smin, sigma_data, clip, mo) ==
    IF BindCall(DenoiseParams, {"self", "x_t", "sigma", "sigma_min"}, nPos, kws) # "ok"
    THEN [status |-> "TypeError", unet |-> 0, sigma_min_bound |-> <<>>]
    ELSE [status |-> "TypeError", unet |-> 0, sigma_min_bound |-> <<sigma>>]

\* denoise called with nPos positional arguments (self included) and the
\* keywords kws; x_t, sigma, smin, sigma_data, clip are the values the
\* parameters are bound to when the binding succeeds, mo the network's
\* output.  sigma_min_bound holds the value the parameter sigma_min was
\* bound to, if the call got that far.  denoised is kept as the terms of
\* c_out * model_output + c_skip * x_t (c_out has the factor
\* 1 / sqrt(sigma^2 + sigma_data^2)) and whether the sum is clamped to
\* [-1, 1].
denoise(nPos, kws, x_t, sigma, smin, sigma_data, clip, mo) ==
    IF BindCall(DenoiseParams, {"self", "x_t", "sigma", "sigma_min"}, nPos, kws) # "ok"
    THEN [status |-> "TypeError", unet |-> 0, sigma_min_bound |-> <<>>]
    ELSE IF BindCall(ScalingParams, {"sigma", "sigma_min"}, 3, {"sigma_data"}) # "ok"
    THEN [status |-> "TypeError", unet |-> 0, sigma_min_bound |-> <<smin>>]
    ELSE LET s == get_scalings_for_boundary_condition(sigma, smin, sigma_data)
         IN [status |-> "ok", unet |-> 1, sigma_min_bound |-> <<smin>>,
             x_t |-> x_t, sigma |-> sigma,
             sigma_min |-> smin, sigma_data |-> sigma_data, clip |-> clip,
             c_skip |-> s.c_skip, c_out |-> s.c_out,
             model_output |-> mo,
             denoised |-> [kind |-> "denoised", c_out |-> s.c_out,
                           model_output |-> mo, c_skip |-> s.c_skip,
                           x_t |-> x_t, clamped |-> clip]]

\* ------------------------------------------------ scheduler (external)
\* The registered scheduler before any set_timesteps call: its sigmas in
\* the original sigma space, the last one being sigma_min.
InitSigmaChoices == {<<6, 3, 1>>, <<6, 3, 0>>}

\* scheduler.set_timesteps(n): n timesteps, highest first.
Timesteps(n) == [k \in 1..n |-> n + 1 - k]

\* The sigma schedule set_timesteps(n) leaves in the scheduler: one sigma
\* per timestep, decreasing, and a final 0.
SigmaSchedule(n) == [k \in 1..(n + 1) |-> 2 * (n + 1 - k)]

\* scheduler.index_for_timestep(t): 0-based position of t in ts.
index_for_timestep(ts, t) == CHOOSE j \in 0..(Len(ts) - 1) : ts[j + 1] = t

\* Python's s[i] for a 0-based and possibly negative index.
PyIndex(s, i) == IF i >= 0 THEN s[i + 1] ELSE s[Len(s) + i + 1]

\* randn_tensor(shape, ...) * self.scheduler.init_noise_sigma
Latents(x0) == [kind |-> "latents", value |-> x0]

\* self.unet(c_in * x_t, rescaled_t).sample for the network with weight w:
\* the network is external, its output is kept as the network and the
\* sample it was given.
Unet(w, x_t) == [kind |-> "unet", weight |-> w, x_t |-> x_t]

\* scheduler.step(...).prev_sample
SchedulerStep(denoised, x) == denoised

\* ------------------------------------------------------------ pipeline
\* get_sigma_min_max_from_scheduler on a scheduler with the attributes
\* attrs, minmax holding its sigma_min and sigma_max where it has them:
\* <<status, sigma_min, sigma_max>>, or the exception raised.
get_sigma_min_max_from_scheduler(attrs, minmax, sigmas) ==
    IF "sigma_min" \in attrs
    THEN IF "sigma_max" \in attrs
         THEN <<"ok", minmax["sigma_min"], minmax["sigma_max"]>>
         ELSE <<"AttributeError">>
    ELSE IF "sigmas" \in attrs
    THEN <<"ok", PyIndex(sigmas, -1), PyIndex(sigmas, 0)>>
    ELSE <<"ValueError">>

\* get_sigmas_from_scheduler: status of the lookup
get_sigmas_from_scheduler(attrs) ==
    IF "sigmas" \in attrs THEN "ok"
    ELSE IF "schedule" \in attrs THEN "ok"
    ELSE "ValueError"

StepKwargNames == {"eta", "generator"}

\* The (eta, generator) pairs given to __call__: the defaults, and a
\* non-zero eta with a torch.Generator.
EtaGenerator == {<<0, "None">>, <<1, "torch.Generator">>}

NoKwargs == [k \in {} |-> 0]

\* prepare_extra_step_kwargs(generator, eta); step_params are the names
\* in inspect.signature(self.scheduler.step).parameters
prepare_extra_step_kwargs(step_params, generator, eta) ==
    [k \in ({"eta"} \cap step_params) \cup ({"generator"} \cap step_params) |->
        IF k = "eta" THEN eta ELSE generator]

\* Which branch of the denoising loop the scheduler selects.
LoopBranch(attrs) ==
    IF "add_noise_to_input" \in attrs THEN "stochastic"
    ELSE IF "sigmas" \in attrs THEN "karras"
    ELSE "incompatible"

\* Post-processing (sample / 2 + 0.5).clamp(0, 1): in units of 1/8 for
\* latents, kept as a term for a denoised sample.
PostProcessSample(x) ==
    IF x.kind = "latents" THEN Clamp(x.value + 4, 0, 8)
    ELSE [kind |-> "post_processed", sample |-> x]

Raise(kind) ==
    /\ pc' = "done"
    /\ result' = kind

\* __call__ entered: the latents are sampled.
Call(n, clip, rd, bs, w, x0, eta, generator) ==
    /\ pc = "idle"
    /\ args' = [num_inference_steps |-> n, clip_denoised |-> clip,
                return_dict |-> rd, batch_size |-> bs, sigma_data |-> 1,
                unet_weight |-> w, eta |-> eta, generator |-> generator]
    /\ sample' = Latents(x0)
    /\ pc' = "sigma_min_max"
    /\ UNCHANGED <<schedAttrs, schedSigmaMinMax, schedSigmas, timesteps, setTimestepsCalls,
                   sigma_min, loopIdx, unetCalls, stepCalls, addNoiseCalls,
                   events, lastDenoise, result, images>>
    /\ UNCHANGED <<stepParams, extraStepKwargs, stepKwargsLog, retval>>
    /\ UNCHANGED <<qfVars, attnVars, lyrVars, ownVars, fnVars>>

\* sigma_min, sigma_max = self.get_sigma_min_max_from_scheduler()
GetSigmaMinMax ==
    /\ pc = "sigma_min_max"
    /\ LET r == get_sigma_min_max_from_scheduler(schedAttrs, schedSigmaMinMax,
                                                 schedSigmas)
       IN IF r[1] = "ok"
          THEN /\ sigma_min' = r[2]
               /\ pc' = "set_timesteps"
               /\ UNCHANGED result
          ELSE /\ Raise(r[1])
               /\ UNCHANGED sigma_min
    /\ events' = Append(events, "get_sigma_min_max")
    /\ UNCHANGED <<schedAttrs, schedSigmaMinMax, schedSigmas, timesteps, setTimestepsCalls, args,
                   sample, loopIdx, unetCalls, stepCalls, addNoiseCalls,
                   lastDenoise, images>>
    /\ UNCHANGED <<stepParams, extraStepKwargs, stepKwargsLog, retval>>
    /\ UNCHANGED <<qfVars, attnVars, lyrVars, ownVars, fnVars>>

\* self.scheduler.set_timesteps(num_inference_steps); timesteps = ...
SetTimesteps ==
    /\ pc = "set_timesteps"
    /\ timesteps' = Timesteps(args.num_inference_steps)
    /\ schedSigmas' = SigmaSchedule(args.num_inference_steps)
    /\ setTimestepsCalls' = setTimestepsCalls + 1
    /\ events' = Append(events, "set_timesteps")
    /\ pc' = "get_sigmas"
    /\ UNCHANGED <<schedAttrs, schedSigmaMinMax, args, sample, sigma_min, loopIdx, unetCalls,
                   stepCalls, addNoiseCalls, lastDenoise, result, images>>
    /\ UNCHANGED <<stepParams, extraStepKwargs, stepKwargsLog, retval>>
    /\ UNCHANGED <<qfVars, attnVars, lyrVars, ownVars, fnVars>>

\* sigmas = self.get_sigmas_from_scheduler(); extra_step_kwargs = ...
GetSigmas ==
    /\ pc = "get_sigmas"
    /\ IF get_sigmas_from_scheduler(schedAttrs) = "ok"
       THEN /\ pc' = "loop"
            /\ extraStepKwargs' = prepare_extra_step_kwargs(
                                      stepParams, args.generator, args.eta)
            /\ UNCHANGED result
       ELSE /\ Raise("ValueError")
            /\ UNCHANGED extraStepKwargs
    /\ events' = Append(events, "get_sigmas")
    /\ UNCHANGED <<schedAttrs, schedSigmaMinMax, schedSigmas, timesteps, setTimestepsCalls, args,
                   sample, sigma_min, loopIdx, unetCalls, stepCalls,
                   addNoiseCalls, lastDenoise, images>>
    /\ UNCHANGED <<stepParams, stepKwargsLog, retval>>
    /\ UNCHANGED <<qfVars, attnVars, lyrVars, ownVars, fnVars>>

\* One pass of the stochastic loop body for the timestep at 1-based
\* position k of ts; st carries the locals and the call counters.
\* scheduler.step is called with positional arguments only.
\* add_noise_to_input returns (sample_hat, sigma_hat); the code indexes
\* that result with [0] and unpacks the tensor into two names, which needs
\* a leading dimension (the batch) of exactly 2.
StochasticBody(st, k, ts, sigmas, smin, a) ==
    LET step_idx   == index_for_timestep(ts, ts[k])
        sigma      == PyIndex(sigmas, step_idx)
        sigma_prev == PyIndex(sigmas, step_idx - 1)
        noised     == [st EXCEPT !.addNoise = @ + 1,
                                 !.events = Append(@, "add_noise")]
    IN IF a.batch_size # 2
       THEN [noised EXCEPT !.status = "ValueError"]
       ELSE LET d == denoise(4, {"sigma_data", "clip_denoised"}, st.sample, sigma,
                             smin, a.sigma_data, a.clip_denoised,
                             Unet(a.unet_weight, st.sample))
                called == [noised EXCEPT !.last = d, !.unet = @ + d.unet,
                                         !.events = Append(@, "denoise")]
            IN IF d.status # "ok"
               THEN [called EXCEPT !.status = d.status]
               ELSE [called EXCEPT !.sample = SchedulerStep(d.denoised, st.sample),
                                   !.step = @ + 1,
                                   !.stepKw = Append(@, NoKwargs),
                                   !.events = Append(@, "step")]

RECURSIVE StochasticLoop(_, _, _, _, _, _)
\* for i, t in enumerate(self.scheduler.timesteps[1:])
StochasticLoop(st, k, ts, sigmas, smin, a) ==
    IF st.status # "ok" \/ k > Len(ts) THEN st
    ELSE StochasticLoop(StochasticBody(st, k, ts, sigmas, smin, a),
                        k + 1, ts, sigmas, smin, a)

\* Branch 4.1 of __call__ as a whole: the first evaluation of the model
\* and the multi-step loop.  The first denoise call passes sample and
\* sigma_min positionally and the other two by keyword.
StochasticBranch(st, ts, sigmas, smin, a) ==
    IF Len(ts) = 0 THEN [st EXCEPT !.status = "IndexError"]
    ELSE LET d == denoise(3, {"sigma_data", "clip_denoised"}, st.sample, smin,
                          smin, a.sigma_data, a.clip_denoised,
                          Unet(a.unet_weight, st.sample))
             first == [st EXCEPT !.last = d, !.unet = @ + d.unet,
                                 !.events = Append(@, "denoise")]
         IN IF d.status # "ok"
            THEN [first EXCEPT !.status = d.status]
            ELSE StochasticLoop([first EXCEPT !.sample = d.denoised],
                                2, ts, sigmas, smin, a)

\* if hasattr(self.scheduler, "add_noise_to_input"): ...
StochasticSampling ==
    /\ pc = "loop"
    /\ LoopBranch(schedAttrs) = "stochastic"
    /\ LET st0 == [status |-> "ok", sample |-> sample, unet |-> unetCalls,
                   step |-> stepCalls, addNoise |-> addNoiseCalls,
                   events |-> Append(events, "stochastic"), last |-> lastDenoise,
                   stepKw |-> stepKwargsLog]
           st  == StochasticBranch(st0, timesteps, schedSigmas, sigma_min, args)
       IN /\ sample' = st.sample
          /\ unetCalls' = st.unet
          /\ stepCalls' = st.step
          /\ addNoiseCalls' = st.addNoise
          /\ events' = st.events
          /\ lastDenoise' = st.last
          /\ stepKwargsLog' = st.stepKw
          /\ IF st.status = "ok"
             THEN pc' = "post" /\ UNCHANGED result
             ELSE Raise(st.status)
    /\ UNCHANGED <<schedAttrs, schedSigmaMinMax, schedSigmas, timesteps, setTimestepsCalls, args,
                   sigma_min, loopIdx, images>>
    /\ UNCHANGED <<stepParams, extraStepKwargs, retval>>
    /\ UNCHANGED <<qfVars, attnVars, lyrVars, ownVars, fnVars>>

\* elif hasattr(self.scheduler, "sigmas"): the loop is entered
EnterKarras ==
    /\ pc = "loop"
    /\ LoopBranch(schedAttrs) = "karras"
    /\ pc' = "karras"
    /\ loopIdx' = 1
    /\ events' = Append(events, "karras")
    /\ UNCHANGED <<schedAttrs, schedSigmaMinMax, schedSigmas, timesteps, setTimestepsCalls, args,
                   sample, sigma_min, unetCalls, stepCalls, addNoiseCalls,
                   lastDenoise, result, images>>
    /\ UNCHANGED <<stepParams, extraStepKwargs, stepKwargsLog, retval>>
    /\ UNCHANGED <<qfVars, attnVars, lyrVars, ownVars, fnVars>>

\* else: raise ValueError(... is not compatible with consistency models)
Incompatible ==
    /\ pc = "loop"
    /\ LoopBranch(schedAttrs) = "incompatible"
    /\ Raise("ValueError")
    /\ UNCHANGED <<schedAttrs, schedSigmaMinMax, schedSigmas, timesteps, setTimestepsCalls, args,
                   sample, sigma_min, loopIdx, unetCalls, stepCalls,
                   addNoiseCalls, events, lastDenoise, images>>
    /\ UNCHANGED <<stepParams, extraStepKwargs, stepKwargsLog, retval>>
    /\ UNCHANGED <<qfVars, attnVars, lyrVars, ownVars, fnVars>>

\* One iteration of `for i, t in enumerate(timesteps)`: denoise, then
\* scheduler.step(denoised, t, sample, **extra_step_kwargs).
KarrasIter ==
    /\ pc = "karras"
    /\ loopIdx <= Len(timesteps)
    /\ LET step_idx == index_for_timestep(timesteps, timesteps[loopIdx])
           sigma    == PyIndex(schedSigmas, step_idx)
           d == denoise(4, {"sigma_data", "clip_denoised"}, sample, sigma,
                        sigma_min, args.sigma_data, args.clip_denoised,
                        Unet(args.unet_weight, sample))
       IN /\ lastDenoise' = d
          /\ unetCalls' = unetCalls + d.unet
          /\ IF d.status = "ok"
             THEN /\ sample' = SchedulerStep(d.denoised, sample)
                  /\ stepCalls' = stepCalls + 1
                  /\ stepKwargsLog' = Append(stepKwargsLog, extraStepKwargs)
                  /\ events' = events \o <<"denoise", "step">>
                  /\ loopIdx' = loopIdx + 1
                  /\ UNCHANGED <<pc, result>>
             ELSE /\ Raise(d.status)
                  /\ events' = Append(events, "denoise")
                  /\ UNCHANGED <<sample, stepCalls, stepKwargsLog, loopIdx>>
    /\ UNCHANGED <<schedAttrs, schedSigmaMinMax, schedSigmas, timesteps, setTimestepsCalls, args,
                   sigma_min, addNoiseCalls, images>>
    /\ UNCHANGED <<stepParams, extraStepKwargs, retval>>
    /\ UNCHANGED <<qfVars, attnVars, lyrVars, ownVars, fnVars>>

\* The Karras loop has gone through every timestep.
KarrasExit ==
    /\ pc = "karras"
    /\ loopIdx > Len(timesteps)
    /\ pc' = "post"
    /\ UNCHANGED <<schedAttrs, schedSigmaMinMax, schedSigmas, timesteps, setTimestepsCalls, args,
                   sample, sigma_min, loopIdx, unetCalls, stepCalls,
                   addNoiseCalls, events, lastDenoise, result, images>>
    /\ UNCHANGED <<stepParams, extraStepKwargs, stepKwargsLog, retval>>
    /\ UNCHANGED <<qfVars, attnVars, lyrVars, ownVars, fnVars>>

\* Faulty variant of ReturnValue: a tuple whatever return_dict is.
ReturnValue_alwaysTuple(return_dict, image) ==
    [type |-> "tuple", items |-> <<image>>]

\* if not return_dict: return (sample,)
\* return ImagePipelineOutput(images=sample)
ReturnValue(return_dict, image) ==
    IF ~return_dict THEN [type |-> "tuple", items |-> <<image>>]
    ELSE [type |-> "ImagePipelineOutput", images |-> image]

NoReturn == [type |-> "none"]

\* 5. Post-process image sample, and return.
PostProcess ==
    /\ pc = "post"
    /\ images' = PostProcessSample(sample)
    /\ retval' = ReturnValue(args.return_dict, images')
    /\ result' = retval'.type
    /\ pc' = "done"
    /\ UNCHANGED <<schedAttrs, schedSigmaMinMax, schedSigmas, timesteps, setTimestepsCalls, args,
                   sample, sigma_min, loopIdx, unetCalls, stepCalls,
                   addNoiseCalls, events, lastDenoise>>
    /\ UNCHANGED <<stepParams, extraStepKwargs, stepKwargsLog>>
    /\ UNCHANGED <<qfVars, attnVars, lyrVars, ownVars, fnVars>>

NoArgs == [num_inference_steps |-> 40, clip_denoised |-> TRUE,
           return_dict |-> TRUE, batch_size |-> 1, sigma_data |-> 1,
           unet_weight |-> 1, eta |-> 0, generator |-> "None"]

NoSample == [kind |-> "none"]

\* No __call__ made yet.
NoCallYet ==
    /\ timesteps = <<>>
    /\ setTimestepsCalls = 0
    /\ pc = "idle"
    /\ args = NoArgs
    /\ sample = NoSample
    /\ sigma_min = 0
    /\ loopIdx = 0
    /\ unetCalls = 0
    /\ stepCalls = 0
    /\ addNoiseCalls = 0
    /\ events = <<>>
    /\ lastDenoise = NoDenoise
    /\ result = "none"
    /\ images = -1
    /\ retval = NoReturn
    /\ extraStepKwargs = NoKwargs
    /\ stepKwargsLog = <<>>

\* The values of sigma_min and sigma_max of a scheduler with the
\* attributes attrs.
SigmaMinMaxChoices(attrs) ==
    {f \in [attrs \cap {"sigma_min", "sigma_max"} -> {1, 2, 6}] :
        /\ "sigma_min" \in attrs => f["sigma_min"] \in {1, 2}
        /\ "sigma_max" \in attrs => f["sigma_max"] = 6}

\* Every scheduler by its attributes (sigma_max is read only next to
\* sigma_min); its step accepts a generator.
PipelineInit ==
    /\ schedAttrs \in {a \in SUBSET SchedulerAttrs :
                          "sigma_max" \in a => "sigma_min" \in a}
    /\ schedSigmaMinMax \in SigmaMinMaxChoices(schedAttrs)
    /\ schedSigmas \in IF "sigma_min" \in schedAttrs THEN {<<6, 3, 1>>}
                       ELSE InitSigmaChoices
    /\ stepParams = {"generator"}
    /\ NoCallYet

\* One scheduler for each branch of the denoising loop, with every
\* signature of its step.
StepKwargsSchedulers == {{"sigmas"}, {"sigmas", "add_noise_to_input"}, {"sigma_min", "sigma_max", "schedule"}}

StepKwargsInit ==
    /\ schedAttrs \in StepKwargsSchedulers
    /\ schedSigmaMinMax = [a \in schedAttrs \cap {"sigma_min", "sigma_max"} |->
                              IF a = "sigma_min" THEN 1 ELSE 6]
    /\ schedSigmas = <<6, 3, 1>>
    /\ stepParams \in SUBSET StepKwargNames
    /\ NoCallYet

PipelineNext ==
    \/ \E n \in 0..MaxSteps, clip \in BOOLEAN, rd \in BOOLEAN, bs \in 1..2,
          w \in {-1, 1}, x0 \in (-MaxSample)..MaxSample, eg \in EtaGenerator :
            Call(n, clip, rd, bs, w, 2 * x0, eg[1], eg[2])
    \/ GetSigmaMinMax
    \/ SetTimesteps
    \/ GetSigmas
    \/ StochasticSampling
    \/ EnterKarras
    \/ Incompatible
    \/ KarrasIter
    \/ KarrasExit
    \/ PostProcess


\* ---------------------------------------------------- attention modules
NoModule == [status |-> "none"]

\* Blip2Attention.__init__(config)
Blip2Attention_init(hidden_size, num_attention_heads) ==
    LET head_dim == hidden_size \div num_attention_heads
    IN IF head_dim * num_attention_heads # hidden_size
       THEN [status |-> "ValueError", hidden_size |-> hidden_size,
             num_attention_heads |-> num_attention_heads]
       ELSE [status |-> "ok", hidden_size |-> hidden_size,
             num_attention_heads |-> num_attention_heads,
             attention_head_size |-> head_dim,
             all_head_size |-> hidden_size]

\* Blip2QFormerMultiHeadAttention.__init__(config, is_cross_attention);
\* has_embedding_size is hasattr(config, "embedding_size").
Blip2QFormerMultiHeadAttention_init(hidden_size, num_attention_heads, has_embedding_size) ==
    IF hidden_size % num_attention_heads # 0 /\ ~has_embedding_size
    THEN [status |-> "ValueError", hidden_size |-> hidden_size,
          num_attention_heads |-> num_attention_heads]
    ELSE [status |-> "ok", hidden_size |-> hidden_size,
          num_attention_heads |-> num_attention_heads,
          attention_head_size |-> hidden_size \div num_attention_heads,
          all_head_size |-> num_attention_heads * (hidden_size \div num_attention_heads),
          qkv_out |-> num_attention_heads * (hidden_size \div num_attention_heads)]

\* Faulty variant of Blip2QFormerMultiHeadAttention_forward: the cached
\* key/value branch is tested before the cross-attention branch, and the
\* mask is not replaced by the encoder's.
Blip2QFormerMultiHeadAttention_forward_selfFirst(hidden_states, attention_mask, encoder_hidden_states, encoder_attention_mask, past_key_value) ==
    LET is_cross_attention == encoder_hidden_states # "None"
        kv == IF past_key_value # "None" THEN {past_key_value, hidden_states}
              ELSE IF is_cross_attention THEN {encoder_hidden_states}
              ELSE {hidden_states}
    IN [is_cross_attention |-> is_cross_attention,
        key_src |-> kv,
        value_src |-> kv,
        query_src |-> {hidden_states},
        mask_added |-> attention_mask]

\* Blip2QFormerMultiHeadAttention.forward.  Every tensor argument is the
\* name of the tensor passed, or "None"; the result names the tensors the
\* keys, values and queries are computed from and the mask added to the
\* attention scores.
Blip2QFormerMultiHeadAttention_forward(hidden_states, attention_mask, encoder_hidden_states, encoder_attention_mask, past_key_value) ==
    LET is_cross_attention == encoder_hidden_states # "None"
        kv == IF is_cross_attention THEN {encoder_hidden_states}
              ELSE IF past_key_value # "None" THEN {past_key_value, hidden_states}
              ELSE {hidden_states}
    IN [is_cross_attention |-> is_cross_attention,
        key_src |-> kv,
        value_src |-> kv,
        query_src |-> {hidden_states},
        mask_added |-> IF is_cross_attention THEN encoder_attention_mask
                       ELSE attention_mask]

\* Blip2QFormerAttention.forward: the attention, then Blip2QFormerSelfOutput,
\* whose dense layer takes dense_in features (hidden_size as constructed): a
\* context of another width (all_head_size) is a shape error.
Blip2QFormerAttention_forward(attn, dense_in, hidden_states, attention_mask, encoder_hidden_states, encoder_attention_mask, past_key_value) ==
    [status |-> IF attn.all_head_size # dense_in THEN "RuntimeError" ELSE "ok",
     call |-> Blip2QFormerMultiHeadAttention_forward(
                  hidden_states, attention_mask, encoder_hidden_states,
                  encoder_attention_mask, past_key_value)]

\* ------------------------------------------------------ Q-Former layers
\* Faulty variant of Blip2QFormerLayer_init: the cross-attention layers are
\* those with (layer_idx + 1) a multiple of the frequency.
Blip2QFormerLayer_init_shifted(cfg, layer_idx) ==
    [layer_idx |-> layer_idx,
     attention |-> Blip2QFormerMultiHeadAttention_init(
                       cfg.hidden_size, cfg.num_attention_heads, cfg.has_embedding_size),
     attention_output_in |-> cfg.hidden_size,
     pruned_heads |-> {},
     has_self_attention |-> TRUE,
     crossattention |-> IF (layer_idx + 1) % cfg.cross_attention_frequency = 0
                        THEN Blip2QFormerMultiHeadAttention_init(
                                 cfg.hidden_size, cfg.num_attention_heads,
                                 cfg.has_embedding_size)
                        ELSE NoModule,
     crossattention_output_in |->
         IF (layer_idx + 1) % cfg.cross_attention_frequency = 0
         THEN cfg.hidden_size ELSE 0,
     crossattention_pruned_heads |-> {},
     has_cross_attention |-> ((layer_idx + 1) % cfg.cross_attention_frequency = 0)]

\* Blip2QFormerLayer.__init__(config, layer_idx): self.attention and, on a
\* cross-attention layer, self.crossattention, both Blip2QFormerAttention
\* modules (the attention, the input width of output.dense, pruned_heads).
Blip2QFormerLayer_init(cfg, layer_idx) ==
    [layer_idx |-> layer_idx,
     attention |-> Blip2QFormerMultiHeadAttention_init(
                       cfg.hidden_size, cfg.num_attention_heads, cfg.has_embedding_size),
     attention_output_in |-> cfg.hidden_size,
     pruned_heads |-> {},
     has_self_attention |-> TRUE,
     crossattention |-> IF layer_idx % cfg.cross_attention_frequency = 0
                        THEN Blip2QFormerMultiHeadAttention_init(
                                 cfg.hidden_size, cfg.num_attention_heads,
                                 cfg.has_embedding_size)
                        ELSE NoModule,
     crossattention_output_in |->
         IF layer_idx % cfg.cross_attention_frequency = 0
         THEN cfg.hidden_size ELSE 0,
     crossattention_pruned_heads |-> {},
     has_cross_attention |-> (layer_idx % cfg.cross_attention_frequency = 0)]

\* Blip2QFormerEncoder.__init__(config): the list of layers
Blip2QFormerEncoder_init(cfg) ==
    [k \in 1..cfg.num_hidden_layers |-> Blip2QFormerLayer_init(cfg, k - 1)]

Min(a, b) == IF a < b THEN a ELSE b

\* Faulty variant of MissingEncoderStates: the check is never made.
MissingEncoderStates_unchecked(layer, encoder_given) == FALSE

\* if self.has_cross_attention: if encoder_hidden_states is None: raise
MissingEncoderStates(layer, encoder_given) ==
    layer.has_cross_attention /\ ~encoder_given

\* Blip2QFormerLayer.forward on hidden_states of seq_len positions;
\* encoder_given says whether encoder_hidden_states is not None.
Blip2QFormerLayer_forward(layer, seq_len, query_length, encoder_given, past_given) ==
    LET enc == IF encoder_given THEN "encoder_hidden_states" ELSE "None"
        encmask == IF encoder_given THEN "encoder_attention_mask" ELSE "None"
        past == IF past_given THEN "past_key_value" ELSE "None"
        self_att == Blip2QFormerAttention_forward(
                        layer.attention, layer.attention_output_in,
                        "hidden_states", "attention_mask",
                        "None", "None", past)
        slice_len == Min(query_length, seq_len)
        cross_att == Blip2QFormerAttention_forward(
                         layer.crossattention, layer.crossattention_output_in,
                         "query_attention_output", "attention_mask",
                         enc, encmask, "None")
        base == [layer_idx |-> layer.layer_idx,
                 has_cross_attention |-> layer.has_cross_attention,
                 seq_len |-> seq_len, query_length |-> query_length,
                 encoder_given |-> encoder_given,
                 slice_len |-> slice_len,
                 status |-> "ok", attn_calls |-> <<self_att.call>>,
                 self_attention_done |-> (self_att.status = "ok"),
                 ffn |-> <<>>, used_encoder |-> FALSE, out_len |-> 0]
    IN IF self_att.status # "ok" THEN [base EXCEPT !.status = self_att.status]
       ELSE IF query_length > 0
       THEN IF MissingEncoderStates(layer, encoder_given)
            THEN [base EXCEPT !.status = "ValueError"]
            ELSE LET crossed == IF layer.has_cross_attention
                                THEN [base EXCEPT !.attn_calls = Append(@, cross_att.call),
                                                  !.used_encoder = encoder_given]
                                ELSE base
                 IN IF layer.has_cross_attention /\ cross_att.status # "ok"
                    THEN [crossed EXCEPT !.status = cross_att.status]
                    ELSE IF seq_len > query_length
                    THEN [crossed EXCEPT !.ffn = <<"feed_forward_chunk_query",
                                                   "feed_forward_chunk">>,
                                         !.out_len = slice_len + (seq_len - query_length)]
                    ELSE [crossed EXCEPT !.ffn = <<"feed_forward_chunk_query">>,
                                         !.out_len = slice_len]
       ELSE [base EXCEPT !.ffn = <<"feed_forward_chunk">>, !.out_len = seq_len]

RECURSIVE Blip2QFormerEncoder_forward(_, _, _, _, _, _)
\* Blip2QFormerEncoder.forward from layer k on: the record of every layer
\* call made, the first failing one being the last.
Blip2QFormerEncoder_forward(layers, k, seq_len, query_length, encoder_given, calls) ==
    IF k > Len(layers) THEN calls
    ELSE LET r == Blip2QFormerLayer_forward(layers[k], seq_len, query_length,
                                            encoder_given, FALSE)
         IN IF r.status # "ok" THEN Append(calls, r)
            ELSE Blip2QFormerEncoder_forward(layers, k + 1, r.out_len, query_length,
                                             encoder_given, Append(calls, r))

\* ----------------------------------------------- embeddings and the model
\* torch.cat(tensors, dim=1) of two batches of rows: the batch sizes must
\* be equal.
Cat1(a, b) ==
    IF Len(a) # Len(b) THEN [ok |-> FALSE, val |-> <<>>]
    ELSE [ok |-> TRUE, val |-> [r \in 1..Len(a) |-> a[r] \o b[r]]]

\* self.tokenizer(text_input, return_tensors="pt", padding=True) for texts
\* of lens[b] tokens: rows padded with 0 to the longest, and their mask.
Tokenize(lens) ==
    LET T == CHOOSE m \in {lens[b] : b \in 1..Len(lens)} :
                 \A b \in 1..Len(lens) : lens[b] <= m
    IN [input_ids |-> [b \in 1..Len(lens) |->
                          [j \in 1..T |-> IF j <= lens[b] THEN 100 * b + j ELSE 0]],
        attention_mask |-> [b \in 1..Len(lens) |->
                               [j \in 1..T |-> IF j <= lens[b] THEN 1 ELSE 0]]]

\* self.query_tokens: one row of num_query_tokens learned vectors
QueryTokens(n) == <<[q \in 1..n |-> [kind |-> "query", id |-> q, pos |-> -1]]>>

\* The text tokens' embeddings: word plus position embedding of each.
TextTokenEmbeddings(input_ids) ==
    [b \in 1..Len(input_ids) |->
        [j \in 1..Len(input_ids[b]) |->
            [kind |-> "text", id |-> input_ids[b][j], pos |-> j - 1]]]

\* Faulty variant of Blip2TextEmbeddings_forward: the query embeddings are
\* appended after the text instead of prepended.
Blip2TextEmbeddings_forward_appended(input_ids, query_embeds) ==
    Cat1(TextTokenEmbeddings(input_ids), query_embeds)

\* Faulty variant of Blip2TextEmbeddings_forward: the query embeddings are not
\* concatenated at all.
Blip2TextEmbeddings_forward_textOnly(input_ids, query_embeds) ==
    [ok |-> TRUE, val |-> TextTokenEmbeddings(input_ids)]

\* Blip2TextEmbeddings.forward(input_ids, query_embeds) with both given:
\* word plus position embedding of every token, after the query embeddings.
Blip2TextEmbeddings_forward(input_ids, query_embeds) ==
    Cat1(query_embeds, TextTokenEmbeddings(input_ids))

\* attention_mask = torch.cat([query_atts, text.attention_mask], dim=1)
QFormerAttentionMask(n, text_mask) == Cat1(<<[q \in 1..n |-> 1]>>, text_mask)

ProjLayerDim == 768

NoOut == [op |-> "none"]

\* Blip2QFormerModel.forward(text_input, image_input, return_dict)
Blip2QFormerModel_forward(cfg, layers, lens, return_dict) ==
    LET text == Tokenize(lens)
        mask == QFormerAttentionMask(cfg.num_query_tokens, text.attention_mask)
        query_length == cfg.num_query_tokens
        emb == Blip2TextEmbeddings_forward(text.input_ids,
                                           QueryTokens(cfg.num_query_tokens))
        base == [status |-> "ok", lens |-> lens,
                 text_mask |-> text.attention_mask,
                 return_dict |-> return_dict,
                 mask_ok |-> mask.ok, attention_mask |-> mask.val,
                 embed_ok |-> FALSE, embedding |-> <<>>,
                 layer_calls |-> <<>>, out_shape |-> <<>>]
    IN IF ~mask.ok THEN [base EXCEPT !.status = "RuntimeError"]
       ELSE IF ~emb.ok THEN [base EXCEPT !.status = "RuntimeError"]
       ELSE LET embedded == [base EXCEPT !.embed_ok = TRUE, !.embedding = emb.val]
                calls == Blip2QFormerEncoder_forward(
                             layers, 1, Len(emb.val[1]), query_length, TRUE, <<>>)
                ran == [embedded EXCEPT !.layer_calls = calls]
                last == calls[Len(calls)]
            IN IF last.status # "ok" THEN [ran EXCEPT !.status = last.status]
               ELSE IF return_dict
               THEN [ran EXCEPT !.out_shape =
                        <<Len(emb.val), last.out_len, cfg.hidden_size>>]
               ELSE IF cfg.hidden_size # ProjLayerDim
               THEN [ran EXCEPT !.status = "RuntimeError"]
               ELSE [ran EXCEPT !.out_shape =
                        <<Len(emb.val), Min(query_length, last.out_len), ProjLayerDim>>]

\* --------------------------------------------------- Q-Former: actions
VisionConfigs == {[hidden_size |-> 2, num_attention_heads |-> 1],
                  [hidden_size |-> 3, num_attention_heads |-> 2]}

\* hidden_size, num_attention_heads and hasattr(config, "embedding_size")
\* of the Q-Former configs tried: two valid ones, one whose hidden size is
\* no multiple of the heads, and that one with an embedding_size.
QFormerAttnConfigs == {<<2, 1, FALSE>>, <<2, 2, FALSE>>, <<3, 2, FALSE>>, <<3, 2, TRUE>>}

QFormerConfigs ==
    {[hidden_size |-> a[1], num_attention_heads |-> a[2],
      has_embedding_size |-> a[3], cross_attention_frequency |-> f,
      num_hidden_layers |-> n, num_query_tokens |-> q, vision |-> v] :
        a \in QFormerAttnConfigs, f \in 1..MaxFreq, n \in 1..MaxLayers,
        q \in 0..MaxQuery, v \in VisionConfigs}

NoConfig == [hidden_size |-> 1, num_attention_heads |-> 1,
             has_embedding_size |-> FALSE, cross_attention_frequency |-> 1,
             num_hidden_layers |-> 1, num_query_tokens |-> 0,
             vision |-> [hidden_size |-> 2, num_attention_heads |-> 1]]

TextInputs == UNION {[1..B -> 1..MaxText] : B \in 1..MaxBatch}

PipelineIdle ==
    /\ schedAttrs = {}
    /\ schedSigmaMinMax = [a \in {} |-> 0]
    /\ schedSigmas = <<6, 3, 1>>
    /\ stepParams = {}
    /\ NoCallYet

QFormerInit ==
    /\ qfStatus = "unbuilt"
    /\ qfConfig = NoConfig
    /\ qfLayers = <<>>
    /\ qfOut = NoOut

AttnInit ==
    /\ visAttn = NoModule
    /\ mhaAttn = NoModule
    /\ mhaOut = NoOut
    /\ lyr = NoModule
    /\ lyrOut = NoOut

\* Blip2QFormerModel.__init__(config): the vision encoder's attention,
\* then the Q-Former encoder's layers.
ConstructModel(cfg) ==
    /\ qfStatus = "unbuilt"
    /\ qfConfig' = cfg
    /\ LET vis == Blip2Attention_init(cfg.vision.hidden_size,
                                      cfg.vision.num_attention_heads)
           layers == Blip2QFormerEncoder_init(cfg)
       IN IF vis.status # "ok" THEN qfStatus' = vis.status /\ qfLayers' = <<>>
          ELSE IF \E k \in 1..Len(layers) : layers[k].attention.status # "ok"
          THEN qfStatus' = "ValueError" /\ qfLayers' = <<>>
          ELSE qfStatus' = "built" /\ qfLayers' = layers
    /\ UNCHANGED <<qfOut, pipeVars, attnVars, lyrVars, ownVars, fnVars>>

\* Blip2QFormerModel.forward(text_input, image_input, return_dict=...)
ModelForward(lens, return_dict) ==
    /\ qfStatus = "built"
    /\ qfOut' = [op |-> "model_forward",
                 r |-> Blip2QFormerModel_forward(qfConfig, qfLayers, lens, return_dict)]
    /\ UNCHANGED <<qfStatus, qfConfig, qfLayers, pipeVars, attnVars, lyrVars, ownVars, fnVars>>

QFormerNext ==
    \/ \E cfg \in QFormerConfigs : ConstructModel(cfg)
    \/ \E lens \in TextInputs, rd \in BOOLEAN : ModelForward(lens, rd)

\* ------------------------------------------------ one layer: actions
\* Blip2QFormerLayer(config, layer_idx)
ConstructLayer(cfg, layer_idx) ==
    /\ LET l == Blip2QFormerLayer_init(cfg, layer_idx)
       IN lyr' = IF l.attention.status # "ok"
                 THEN [status |-> "ValueError"]
                 ELSE [status |-> "ok", layer |-> l]
    /\ lyrOut' = NoOut
    /\ UNCHANGED <<pipeVars, qfVars, attnVars, ownVars, fnVars>>

\* forward(hidden_states, ..., encoder_hidden_states, query_length) of the
\* constructed layer
LayerForward(seq_len, query_length, encoder_given) ==
    /\ lyr.status = "ok"
    /\ lyrOut' = [op |-> "layer_forward",
                  r |-> Blip2QFormerLayer_forward(lyr.layer, seq_len, query_length,
                                                  encoder_given, FALSE)]
    /\ UNCHANGED <<lyr, pipeVars, qfVars, attnVars, ownVars, fnVars>>

LayerNext ==
    \/ \E cfg \in QFormerConfigs, k \in 0..(MaxLayers - 1) : ConstructLayer(cfg, k)
    \/ \E n \in 1..(MaxText + 1), q \in 0..MaxQuery, e \in BOOLEAN :
          LayerForward(n, q, e)

\* ------------------------------------------- attention modules: actions
\* Blip2Attention(config)
ConstructBlip2Attention(hidden_size, heads) ==
    /\ visAttn' = Blip2Attention_init(hidden_size, heads)
    /\ UNCHANGED <<mhaAttn, mhaOut, pipeVars, qfVars, lyrVars, ownVars, fnVars>>

\* Blip2QFormerMultiHeadAttention(config)
ConstructQFormerAttention(hidden_size, heads, has_embedding_size) ==
    /\ mhaAttn' = Blip2QFormerMultiHeadAttention_init(hidden_size, heads,
                                                      has_embedding_size)
    /\ mhaOut' = NoOut
    /\ UNCHANGED <<visAttn, pipeVars, qfVars, lyrVars, ownVars, fnVars>>

\* forward of the constructed Blip2QFormerMultiHeadAttention with each
\* optional tensor given or None
AttentionForward(mask, enc, encmask, past) ==
    /\ mhaAttn.status = "ok"
    /\ mhaOut' = [op |-> "attention_forward",
                  given |-> [attention_mask |-> mask,
                             encoder_hidden_states |-> enc,
                             encoder_attention_mask |-> encmask,
                             past_key_value |-> past],
                  r |-> Blip2QFormerMultiHeadAttention_forward(
                            "hidden_states", mask, enc, encmask, past)]
    /\ UNCHANGED <<visAttn, mhaAttn, pipeVars, qfVars, lyrVars, ownVars, fnVars>>

AttentionNext ==
    \/ \E h \in 1..MaxHidden, n \in 1..MaxHeads : ConstructBlip2Attention(h, n)
    \/ \E h \in 1..MaxHidden, n \in 1..MaxHeads, e \in BOOLEAN :
          ConstructQFormerAttention(h, n, e)
    \/ \E mask \in {"None", "attention_mask"},
          enc \in {"None", "encoder_hidden_states"},
          encmask \in {"None", "encoder_attention_mask"},
          past \in {"None", "past_key_value"} :
          AttentionForward(mask, enc, encmask, past)

\* ------------------------------------------ the model's owned state
\* find_pruneable_heads_and_indices(heads, n_heads, head_size,
\* already_pruned_heads) of transformers.pytorch_utils: the heads not yet
\* pruned, and the number of rows of the n_heads * head_size it keeps.  A
\* head is looked up at its position among the remaining heads; a position
\* past the last one is an IndexError.
find_pruneable_heads_and_indices(heads, n_heads, head_size, already_pruned_heads) ==
    LET todo == heads \ already_pruned_heads
        position(h) == h - Cardinality({a \in already_pruned_heads : a < h})
    IN IF \E h \in todo : position(h) >= n_heads
       THEN [status |-> "IndexError", heads |-> todo, index_len |-> 0]
       ELSE [status |-> "ok", heads |-> todo,
             index_len |-> (n_heads - Cardinality(todo)) * head_size]

\* layer.attention as a Blip2QFormerAttention module
SelfAttentionModule(layer) ==
    [attention |-> layer.attention, output_in |-> layer.attention_output_in,
     pruned_heads |-> layer.pruned_heads]

\* layer.crossattention as a Blip2QFormerAttention module
CrossAttentionModule(layer) ==
    [attention |-> layer.crossattention,
     output_in |-> layer.crossattention_output_in,
     pruned_heads |-> layer.crossattention_pruned_heads]

\* The layer with m as its layer.attention
WithSelfAttention(layer, m) ==
    [layer EXCEPT !.attention = m.attention,
                  !.attention_output_in = m.output_in,
                  !.pruned_heads = m.pruned_heads]

\* The layer with m as its layer.crossattention
WithCrossAttention(layer, m) ==
    [layer EXCEPT !.crossattention = m.attention,
                  !.crossattention_output_in = m.output_in,
                  !.crossattention_pruned_heads = m.pruned_heads]

\* Blip2QFormerAttention.prune_heads(heads) on the module m
Blip2QFormerAttention_prune_heads(m, heads) ==
    IF heads = {} THEN [status |-> "ok", module |-> m]
    ELSE LET f == find_pruneable_heads_and_indices(
                      heads, m.attention.num_attention_heads,
                      m.attention.attention_head_size, m.pruned_heads)
             n == m.attention.num_attention_heads - Cardinality(f.heads)
         IN IF f.status # "ok" THEN [status |-> f.status, module |-> m]
            ELSE [status |-> "ok",
                  module |-> [m EXCEPT
                      !.attention.qkv_out = f.index_len,
                      !.output_in = f.index_len,
                      !.attention.num_attention_heads = n,
                      !.attention.all_head_size =
                          m.attention.attention_head_size * n,
                      !.pruned_heads = @ \cup f.heads]]

\* Faulty variant of Blip2QFormerModel_prune_heads: the heads of the first
\* entry are pruned in the self-attention of every layer.
Blip2QFormerModel_prune_heads_everyLayer(layers, heads_to_prune) ==
    IF heads_to_prune = <<>> THEN [status |-> "ok", layers |-> layers]
    ELSE [status |-> "ok",
          layers |-> [k \in 1..Len(layers) |->
              WithSelfAttention(layers[k],
                  Blip2QFormerAttention_prune_heads(
                      SelfAttentionModule(layers[k]), heads_to_prune[1][2]).module)]]

RECURSIVE Blip2QFormerModel_prune_heads(_, _)
\* Blip2QFormerModel._prune_heads(heads_to_prune): heads_to_prune is the
\* dict's items in order, each <<layer, heads>>.  For each entry in turn,
\* self.encoder.layer[layer].attention.prune_heads(heads); an entry that
\* raises ends the loop with the earlier layers pruned.
Blip2QFormerModel_prune_heads(layers, heads_to_prune) ==
    IF heads_to_prune = <<>> THEN [status |-> "ok", layers |-> layers]
    ELSE LET layer == heads_to_prune[1][1]
             heads == heads_to_prune[1][2]
         IN IF layer >= Len(layers)
            THEN [status |-> "IndexError", layers |-> layers]
            ELSE LET r == Blip2QFormerAttention_prune_heads(
                              SelfAttentionModule(layers[layer + 1]), heads)
                 IN IF r.status # "ok"
                    THEN [status |-> r.status, layers |-> layers]
                    ELSE Blip2QFormerModel_prune_heads(
                             [layers EXCEPT ![layer + 1] =
                                 WithSelfAttention(@, r.module)],
                             Tail(heads_to_prune))

\* self.encoder.layer[layer_num].crossattention.prune_heads(heads)
Blip2QFormerLayer_crossattention_prune_heads(layers, layer_num, heads) ==
    IF layer_num >= Len(layers) THEN [status |-> "IndexError", layers |-> layers]
    ELSE IF ~layers[layer_num + 1].has_cross_attention
    THEN [status |-> "AttributeError", layers |-> layers]
    ELSE LET r == Blip2QFormerAttention_prune_heads(
                      CrossAttentionModule(layers[layer_num + 1]), heads)
         IN [status |-> r.status,
             layers |-> [layers EXCEPT ![layer_num + 1] =
                            WithCrossAttention(@, r.module)]]

\* Blip2QFormerModel.__init__(config): the vision encoder's attention, the
\* word embedding module, then the Q-Former encoder's layers
Blip2QFormerModel_init(cfg) ==
    LET vis == Blip2Attention_init(cfg.vision.hidden_size,
                                   cfg.vision.num_attention_heads)
        layers == Blip2QFormerEncoder_init(cfg)
        failed == [status |-> "ValueError", cfg |-> cfg, layers |-> <<>>,
                   word_embeddings |-> "none"]
    IN IF vis.status # "ok" THEN failed
       ELSE IF \E k \in 1..Len(layers) : layers[k].attention.status # "ok"
       THEN failed
       ELSE [status |-> "built", cfg |-> cfg, layers |-> layers,
             word_embeddings |-> "nn.Embedding"]

Unbuilt == [status |-> "unbuilt", cfg |-> NoConfig, layers |-> <<>>,
            word_embeddings |-> "none"]

NoOp == [name |-> "none", status |-> "none"]

\* The configs an instance is built from: every attention shape, one or
\* two layers, each with cross-attention.
OwnedStateConfigs ==
    {[hidden_size |-> a[1], num_attention_heads |-> a[2],
      has_embedding_size |-> a[3], cross_attention_frequency |-> 1,
      num_hidden_layers |-> n, num_query_tokens |-> 1,
      vision |-> [hidden_size |-> 2, num_attention_heads |-> 1]] :
        a \in QFormerAttnConfigs, n \in {1, 2}}

\* The dicts handed to _prune_heads, as their items in order: no entry,
\* one layer, two layers in either order, a layer the encoder does not
\* have after one it has.
HeadsToPrune ==
    {<<>>, <<<<0, {}>>>>, <<<<0, {0}>>>>, <<<<0, {1}>>>>, <<<<0, {0, 1}>>>>,
     <<<<1, {0}>>>>, <<<<0, {0}>>, <<1, {1}>>>>, <<<<1, {1}>>, <<0, {0}>>>>,
     <<<<0, {1}>>, <<2, {0}>>>>}

\* The <<layer, heads>> a cross-attention module is pruned with.
CrossHeadsToPrune == {<<0, {0}>>, <<0, {1}>>, <<1, {0}>>, <<2, {0}>>}

\* Modules handed to set_input_embeddings
EmbeddingModules == {"nn.Embedding", "replacement"}

OwnInit ==
    /\ own = Unbuilt
    /\ ownPrev = Unbuilt
    /\ ownOp = NoOp

\* Blip2QFormerModel(config)
OwnConstruct(cfg) ==
    /\ own.status = "unbuilt"
    /\ own' = Blip2QFormerModel_init(cfg)
    /\ ownPrev' = own'
    /\ ownOp' = [name |-> "__init__", status |-> own'.status]
    /\ UNCHANGED <<pipeVars, qfVars, attnVars, lyrVars, fnVars>>

\* model.forward(text_input, image_input, return_dict=...)
OwnForward(lens, return_dict) ==
    /\ own.status = "built"
    /\ ownOp' = [name |-> "forward",
                 status |-> Blip2QFormerModel_forward(
                                own.cfg, own.layers, lens, return_dict).status]
    /\ ownPrev' = own
    /\ UNCHANGED <<own, pipeVars, qfVars, attnVars, lyrVars, fnVars>>

\* model.get_input_embeddings()
GetInputEmbeddings ==
    /\ own.status = "built"
    /\ ownOp' = [name |-> "get_input_embeddings", status |-> "ok"]
    /\ ownPrev' = own
    /\ UNCHANGED <<own, pipeVars, qfVars, attnVars, lyrVars, fnVars>>

\* model.set_input_embeddings(value)
SetInputEmbeddings(value) ==
    /\ own.status = "built"
    /\ own' = [own EXCEPT !.word_embeddings = value]
    /\ ownOp' = [name |-> "set_input_embeddings", status |-> "ok"]
    /\ ownPrev' = own
    /\ UNCHANGED <<pipeVars, qfVars, attnVars, lyrVars, fnVars>>

\* model._prune_heads(heads_to_prune)
PruneHeads(heads_to_prune) ==
    /\ own.status = "built"
    /\ LET r == Blip2QFormerModel_prune_heads(own.layers, heads_to_prune)
       IN /\ own' = [own EXCEPT !.layers = r.layers]
          /\ ownOp' = [name |-> "_prune_heads", status |-> r.status,
                       heads_to_prune |-> heads_to_prune]
    /\ ownPrev' = own
    /\ UNCHANGED <<pipeVars, qfVars, attnVars, lyrVars, fnVars>>

\* model.encoder.layer[layer_num].crossattention.prune_heads(heads)
PruneCrossAttentionHeads(layer_num, heads) ==
    /\ own.status = "built"
    /\ LET r == Blip2QFormerLayer_crossattention_prune_heads(
                    own.layers, layer_num, heads)
       IN /\ own' = [own EXCEPT !.layers = r.layers]
          /\ ownOp' = [name |-> "crossattention.prune_heads", status |-> r.status,
                       layer |-> layer_num, heads |-> heads]
    /\ ownPrev' = own
    /\ UNCHANGED <<pipeVars, qfVars, attnVars, lyrVars, fnVars>>

OwnNext ==
    \/ \E cfg \in OwnedStateConfigs : OwnConstruct(cfg)
    \/ \E lens \in {<<1>>, <<1, 2>>}, rd \in BOOLEAN : OwnForward(lens, rd)
    \/ GetInputEmbeddings
    \/ \E v \in EmbeddingModules : SetInputEmbeddings(v)
    \/ \E h \in HeadsToPrune : PruneHeads(h)
    \/ \E c \in CrossHeadsToPrune : PruneCrossAttentionHeads(c[1], c[2])

\* ------------------------------------------------------ tensor functions
\* A tensor is its shape and its elements, one per index tuple.
SeqMax(s) == IF s = <<>> THEN 0 ELSE CHOOSE m \in {s[k] : k \in 1..Len(s)} : \A k \in 1..Len(s) : s[k] <= m

Indices(shape) == {i \in [1..Len(shape) -> 1..SeqMax(shape)] : \A k \in 1..Len(shape) : i[k] <= shape[k]}

Ones(n) == [k \in 1..n |-> 1]

\* Faulty variant of append_dims: the dimensions are put in front.
append_dims_leading(x, target_dims) ==
    LET dims_to_append == target_dims - Len(x.shape)
    IN IF dims_to_append < 0 THEN [status |-> "ValueError"]
       ELSE LET shape == Ones(dims_to_append) \o x.shape
            IN [status |-> "ok", shape |-> shape,
                at |-> [i \in Indices(shape) |->
                           x.at[SubSeq(i, dims_to_append + 1, Len(i))]]]

\* append_dims(x, target_dims): x[(...,) + (None,) * dims_to_append]
append_dims(x, target_dims) ==
    LET dims_to_append == target_dims - Len(x.shape)
    IN IF dims_to_append < 0 THEN [status |-> "ValueError"]
       ELSE LET shape == x.shape \o Ones(dims_to_append)
            IN [status |-> "ok", shape |-> shape,
                at |-> [i \in Indices(shape) |-> x.at[SubSeq(i, 1, Len(x.shape))]]]

MaskedValue == -10000

\* Faulty variant of get_extended_attention_mask: the mask is scaled without
\* being inverted.
get_extended_attention_mask_uninverted(attention_mask) ==
    LET s == attention_mask.shape
    IN IF Len(s) = 3
       THEN LET shape == <<s[1], 1, s[2], s[3]>>
            IN [status |-> "ok", shape |-> shape,
                at |-> [i \in Indices(shape) |->
                           attention_mask.at[<<i[1], i[3], i[4]>>] * MaskedValue]]
       ELSE IF Len(s) = 2
       THEN LET shape == <<s[1], 1, 1, s[2]>>
            IN [status |-> "ok", shape |-> shape,
                at |-> [i \in Indices(shape) |->
                           attention_mask.at[<<i[1], i[4]>>] * MaskedValue]]
       ELSE [status |-> "ValueError"]

\* Blip2QFormerModel.get_extended_attention_mask(attention_mask, ...):
\* attention_mask[:, None, :, :] or attention_mask[:, None, None, :], then
\* (1.0 - extended_attention_mask) * -10000.0
get_extended_attention_mask(attention_mask) ==
    LET s == attention_mask.shape
    IN IF Len(s) = 3
       THEN LET shape == <<s[1], 1, s[2], s[3]>>
            IN [status |-> "ok", shape |-> shape,
                at |-> [i \in Indices(shape) |->
                           (1 - attention_mask.at[<<i[1], i[3], i[4]>>]) * MaskedValue]]
       ELSE IF Len(s) = 2
       THEN LET shape == <<s[1], 1, 1, s[2]>>
            IN [status |-> "ok", shape |-> shape,
                at |-> [i \in Indices(shape) |->
                           (1 - attention_mask.at[<<i[1], i[4]>>]) * MaskedValue]]
       ELSE [status |-> "ValueError"]

\* ProjLayer.forward(x) of ProjLayer(in_dim, out_dim, hidden_dim) on an x
\* whose last dimension is width: the modules applied, in order, up to the
\* first whose input has the wrong width, and the width of the result.
ProjLayer_forward(in_dim, out_dim, hidden_dim, width) ==
    IF width # out_dim
    THEN [status |-> "RuntimeError", ops |-> <<"LayerNorm">>, width |-> width]
    ELSE IF width # in_dim
    THEN [status |-> "RuntimeError", ops |-> <<"LayerNorm", "dense1">>,
          width |-> width]
    ELSE [status |-> "ok",
          ops |-> <<"LayerNorm", "dense1", "act_fn", "dense2", "dropout", "residual">>,
          width |-> out_dim]

\* ------------------------------------------- tensor functions: actions
MaxNdim == 3

\* The tensors given to append_dims: every shape of up to MaxNdim
\* dimensions of size 1 or 2, each element holding its own index.
ShapedTensors ==
    {[shape |-> s, at |-> [i \in Indices(s) |-> i]] :
        s \in UNION {[1..n -> {1, 2}] : n \in 0..MaxNdim}}

\* The masks given to get_extended_attention_mask: the padding mask of a
\* tokenized batch as a 2-D tensor, one row of it (1-D), the same mask for
\* every query position (3-D), its causal restriction (3-D), and the 2-D
\* mask with two dimensions added (4-D).
MaskTensor(lens, kind) ==
    LET m == Tokenize(lens).attention_mask
        B == Len(m)
        T == Len(m[1])
    IN CASE kind = "1d" -> [shape |-> <<T>>, at |-> [i \in Indices(<<T>>) |-> m[1][i[1]]]]
         [] kind = "2d" -> [shape |-> <<B, T>>,
                            at |-> [i \in Indices(<<B, T>>) |-> m[i[1]][i[2]]]]
         [] kind = "3d" -> [shape |-> <<B, T, T>>,
                            at |-> [i \in Indices(<<B, T, T>>) |-> m[i[1]][i[3]]]]
         [] kind = "3d_causal" ->
                [shape |-> <<B, T, T>>,
                 at |-> [i \in Indices(<<B, T, T>>) |->
                            IF i[3] <= i[2] THEN m[i[1]][i[3]] ELSE 0]]
         [] kind = "4d" -> [shape |-> <<B, 1, 1, T>>,
                            at |-> [i \in Indices(<<B, 1, 1, T>>) |-> m[i[1]][i[4]]]]

MaskKinds == {"1d", "2d", "3d", "3d_causal", "4d"}

\* append_dims(x, target_dims)
AppendDims(x, target_dims) ==
    /\ fnOut' = [op |-> "append_dims", x |-> x, target_dims |-> target_dims,
                 r |-> append_dims(x, target_dims)]
    /\ UNCHANGED <<pipeVars, qfVars, attnVars, lyrVars, ownVars>>

\* model.get_extended_attention_mask(attention_mask, input_shape, device)
ExtendMask(lens, kind) ==
    /\ fnOut' = [op |-> "get_extended_attention_mask",
                 attention_mask |-> MaskTensor(lens, kind),
                 r |-> get_extended_attention_mask(MaskTensor(lens, kind))]
    /\ UNCHANGED <<pipeVars, qfVars, attnVars, lyrVars, ownVars>>

\* ProjLayer(in_dim, out_dim, hidden_dim)(x)
ProjForward(in_dim, out_dim, hidden_dim, width) ==
    /\ fnOut' = [op |-> "proj_layer", in_dim |-> in_dim, out_dim |-> out_dim,
                 hidden_dim |-> hidden_dim, width |-> width,
                 r |-> ProjLayer_forward(in_dim, out_dim, hidden_dim, width)]
    /\ UNCHANGED <<pipeVars, qfVars, attnVars, lyrVars, ownVars>>

TensorNext ==
    \/ \E x \in ShapedTensors, t \in 0..(MaxNdim + 1) : AppendDims(x, t)
    \/ \E lens \in TextInputs, kind \in MaskKinds : ExtendMask(lens, kind)
    \/ \E i \in 1..MaxHidden, o \in 1..MaxHidden, h \in 1..MaxHidden,
          w \in 1..MaxHidden : ProjForward(i, o, h, w)

\* ------------------------------------------------ attention outputs
\* The tuple Blip2QFormerAttention.forward returns for the attention `of`
\* ("self" or "cross") of layer layer_idx: the attention output, the
\* attention probabilities if output_attentions, and the (key, value) pair.
Blip2QFormerAttention_outputs(of, layer_idx, output_attentions) ==
    <<[kind |-> "attention_output", of |-> of, layer |-> layer_idx]>>
        \o (IF output_attentions
            THEN <<[kind |-> "attention_probs", of |-> of, layer |-> layer_idx]>>
            ELSE <<>>)
        \o <<[kind |-> "key_value", of |-> of, layer |-> layer_idx]>>

\* The tuple a Blip2QFormerLayer.forward that ended as r returns:
\* (layer_output,) + self_attention_outputs[1:-1]
\*     + cross_attention_outputs[1:-1] (if the cross-attention ran)
\*     + (present_key_value,)
Blip2QFormerLayer_outputs(r, output_attentions) ==
    LET self_attention_outputs ==
            Blip2QFormerAttention_outputs("self", r.layer_idx, output_attentions)
        cross_attention_outputs ==
            Blip2QFormerAttention_outputs("cross", r.layer_idx, output_attentions)
        outputs == SubSeq(self_attention_outputs, 2, Len(self_attention_outputs) - 1)
        crossed == IF Len(r.attn_calls) = 2
                   THEN outputs \o SubSeq(cross_attention_outputs, 2,
                                          Len(cross_attention_outputs) - 1)
                   ELSE outputs
    IN <<[kind |-> "layer_output", of |-> "layer", layer |-> r.layer_idx]>>
           \o crossed
           \o <<PyIndex(self_attention_outputs, -1)>>

RECURSIVE Blip2QFormerEncoder_attentions(_, _, _, _)
\* The loop of Blip2QFormerEncoder.forward with output_attentions=True over
\* the layer calls from the k-th on: all_self_attentions gets
\* layer_outputs[1], and all_cross_attentions gets layer_outputs[2] of
\* every layer that has cross-attention.
Blip2QFormerEncoder_attentions(calls, k, all_self_attentions, all_cross_attentions) ==
    IF k > Len(calls)
    THEN [attentions |-> all_self_attentions,
          cross_attentions |-> all_cross_attentions]
    ELSE LET layer_outputs == Blip2QFormerLayer_outputs(calls[k], TRUE)
         IN Blip2QFormerEncoder_attentions(
                calls, k + 1,
                Append(all_self_attentions, PyIndex(layer_outputs, 1)),
                IF calls[k].has_cross_attention
                THEN Append(all_cross_attentions, PyIndex(layer_outputs, 2))
                ELSE all_cross_attentions)

\* Blip2QFormerEncoder.forward(hidden_states, ..., output_attentions,
\* query_length) with return_dict=True on hidden_states of seq_len positions
Blip2QFormerEncoder_output(layers, seq_len, query_length, encoder_given, output_attentions) ==
    LET calls == Blip2QFormerEncoder_forward(layers, 1, seq_len, query_length,
                                             encoder_given, <<>>)
        last == calls[Len(calls)]
        base == [status |-> last.status, query_length |-> query_length,
                 seq_len |-> seq_len, encoder_given |-> encoder_given,
                 output_attentions |-> output_attentions,
                 layer_calls |-> calls,
                 attentions |-> "None", cross_attentions |-> "None"]
    IN IF last.status # "ok" \/ ~output_attentions THEN base
       ELSE LET a == Blip2QFormerEncoder_attentions(calls, 1, <<>>, <<>>)
            IN [base EXCEPT !.attentions = a.attentions,
                            !.cross_attentions = a.cross_attentions]

\* ------------------------------------------------- the encoder: actions
\* The Q-Former configs an encoder is built from (the encoder reads
\* neither the vision config nor num_query_tokens).
EncoderConfigs ==
    {c \in QFormerConfigs :
        /\ c.num_query_tokens = 0
        /\ c.vision = [hidden_size |-> 2, num_attention_heads |-> 1]}

\* Blip2QFormerEncoder(config)
ConstructEncoder(cfg) ==
    /\ qfStatus = "unbuilt"
    /\ qfConfig' = cfg
    /\ LET layers == Blip2QFormerEncoder_init(cfg)
       IN IF \E k \in 1..Len(layers) : layers[k].attention.status # "ok"
          THEN qfStatus' = "ValueError" /\ qfLayers' = <<>>
          ELSE qfStatus' = "built" /\ qfLayers' = layers
    /\ UNCHANGED <<qfOut, pipeVars, attnVars, lyrVars, ownVars, fnVars>>

\* encoder.forward(hidden_states, encoder_hidden_states=...,
\* output_attentions=..., query_length=...)
EncoderForward(seq_len, query_length, encoder_given, output_attentions) ==
    /\ qfStatus = "built"
    /\ qfOut' = [op |-> "encoder_forward",
                 r |-> Blip2QFormerEncoder_output(qfLayers, seq_len, query_length,
                                                  encoder_given, output_attentions)]
    /\ UNCHANGED <<qfStatus, qfConfig, qfLayers, pipeVars, attnVars, lyrVars, ownVars, fnVars>>

EncoderNext ==
    \/ \E cfg \in EncoderConfigs : ConstructEncoder(cfg)
    \/ \E n \in 1..(MaxText + 1), q \in 0..MaxQuery, e \in BOOLEAN, oa \in BOOLEAN :
          EncoderForward(n, q, e, oa)

\* ------------------------------------------------------ specifications
FnInit == fnOut = NoOut

InitPipeline == PipelineInit /\ QFormerInit /\ AttnInit /\ OwnInit /\ FnInit

InitStepKwargs == StepKwargsInit /\ QFormerInit /\ AttnInit /\ OwnInit /\ FnInit

InitOthers == PipelineIdle /\ QFormerInit /\ AttnInit /\ OwnInit /\ FnInit

SpecPipeline == InitPipeline /\ [][PipelineNext]_vars

SpecStepKwargs == InitStepKwargs /\ [][PipelineNext]_vars

SpecQFormer == InitOthers /\ [][QFormerNext]_vars

SpecAttention == InitOthers /\ [][AttentionNext]_vars

SpecLayer == InitOthers /\ [][LayerNext]_vars

SpecEncoder == InitOthers /\ [][EncoderNext]_vars

SpecOwnedState == InitOthers /\ [][OwnNext]_vars

SpecTensorFunctions == InitOthers /\ [][TensorNext]_vars

\* ------------------------------------------------- claims: the pipeline
Returned == result \in {"ImagePipelineOutput", "tuple"}

Entered(branch) == \E j \in 1..Len(events) : events[j] = branch

\* The events of the denoising loop: what follows the branch marker.
LoopEvents(branch) ==
    LET j == CHOOSE k \in 1..Len(events) : events[k] = branch
    IN SubSeq(events, j + 1, Len(events))

\* C1: with a Karras-style scheduler (sigmas, no add_noise_to_input) a call
\* that has ended went through every entry of scheduler.timesteps in order,
\* each iteration running the network once and then scheduler.step once,
\* and returned the post-processed images.
C1_KarrasLoopRunsEveryTimestep ==
    (pc = "done" /\ Entered("karras")) =>
        /\ Returned
        /\ unetCalls = Len(timesteps)
        /\ stepCalls = Len(timesteps)
        /\ LoopEvents("karras") =
              [j \in 1..(2 * Len(timesteps)) |->
                  IF j % 2 = 1 THEN "denoise" ELSE "step"]
        /\ images = PostProcessSample(sample)

\* C2: with a scheduler that has add_noise_to_input and a single timestep,
\* a call that has ended evaluated the consistency model exactly once,
\* never called add_noise_to_input or scheduler.step, and returned that
\* denoised sample post-processed.
C2_SingleStepEvaluatesOnce ==
    (pc = "done" /\ Entered("stochastic") /\ Len(timesteps) = 1) =>
        /\ Returned
        /\ unetCalls = 1
        /\ addNoiseCalls = 0
        /\ stepCalls = 0
        /\ lastDenoise.status = "ok"
        /\ images = PostProcessSample(lastDenoise.denoised)

\* C3: every denoise call returns (model_output, denoised) computed with
\* c_skip = sigma_data^2 / ((sigma - sigma_min)^2 + sigma_data^2) and a
\* c_out with the factor (sigma - sigma_min); at sigma = sigma_min,
\* c_skip = 1, c_out = 0 and denoised is x_t (clamped when clip_denoised).
C3_DenoiseBoundaryCondition ==
    lastDenoise.status # "none" =>
        /\ lastDenoise.status = "ok"
        /\ lastDenoise.c_skip =
              <<lastDenoise.sigma_data * lastDenoise.sigma_data,
                (lastDenoise.sigma - lastDenoise.sigma_min)
                    * (lastDenoise.sigma - lastDenoise.sigma_min)
                  + lastDenoise.sigma_data * lastDenoise.sigma_data>>
        /\ lastDenoise.c_out[1] =
              (lastDenoise.sigma - lastDenoise.sigma_min) * lastDenoise.sigma_data
        /\ lastDenoise.sigma = lastDenoise.sigma_min =>
              /\ lastDenoise.c_skip[1] = lastDenoise.c_skip[2]
              /\ lastDenoise.c_out[1] = 0
              /\ lastDenoise.denoised =
                    [kind |-> "denoised",
                     c_out |-> <<0, lastDenoise.c_out[2]>>,
                     model_output |-> lastDenoise.model_output,
                     c_skip |-> <<lastDenoise.c_skip[1], lastDenoise.c_skip[1]>>,
                     x_t |-> lastDenoise.x_t,
                     clamped |-> lastDenoise.clip]

\* C9: when __call__ raises ValueError for an unsupported scheduler,
\* set_timesteps has not been called, no denoising step has run and the
\* scheduler's state is what it was before the call.
C9_UnsupportedSchedulerRaisesFirst ==
    result = "ValueError" =>
        /\ setTimestepsCalls = 0
        /\ unetCalls = 0
        /\ stepCalls = 0
        /\ addNoiseCalls = 0
        /\ timesteps = <<>>
        /\ schedSigmas \in InitSigmaChoices

\* ------------------------------------------------ claims: the Q-Former
\* C4: in a built model every encoder layer has a self-attention block,
\* and layer i has a cross-attention block exactly when
\* i % cross_attention_frequency = 0; this holds in every state after
\* construction, whatever forward calls have been made.
C4_CrossAttentionEveryFrequency ==
    qfStatus = "built" =>
        /\ Len(qfLayers) = qfConfig.num_hidden_layers
        /\ \A k \in 1..Len(qfLayers) :
              /\ qfLayers[k].has_self_attention
              /\ qfLayers[k].has_cross_attention
                    <=> ((k - 1) % qfConfig.cross_attention_frequency = 0)

C4_Witness ==
    /\ qfStatus = "built"
    /\ qfConfig.cross_attention_frequency = 2
    /\ Len(qfLayers) = 3
    /\ ~qfLayers[2].has_cross_attention
    /\ qfOut.op = "model_forward"
    /\ qfOut.r.status = "ok"

\* C5: whenever the embeddings of a forward call are produced, each row is
\* the Q query tokens followed by the T text tokens in input order, and
\* the attention mask is Q ones followed by the tokenizer's text mask.
C5_QueryTokensPrepended ==
    (qfOut.op = "model_forward" /\ qfOut.r.embed_ok) =>
        LET Q == qfConfig.num_query_tokens
            r == qfOut.r
        IN \A b \in 1..Len(r.embedding) :
              LET row == r.embedding[b]
                  T   == Len(r.text_mask[b])
              IN /\ Len(row) = Q + T
                 /\ \A j \in 1..Q : row[j].kind = "query" /\ row[j].id = j
                 /\ \A j \in 1..T :
                       /\ row[Q + j].kind = "text"
                       /\ row[Q + j].pos = j - 1
                       /\ row[Q + j].id = Tokenize(r.lens).input_ids[b][j]
                 /\ r.attention_mask[b] =
                       [j \in 1..(Q + T) |->
                           IF j <= Q THEN 1 ELSE r.text_mask[b][j - Q]]

C5_Witness ==
    /\ qfOut.op = "model_forward"
    /\ qfOut.r.embed_ok
    /\ qfConfig.num_query_tokens = 2
    /\ Len(qfOut.r.embedding[1]) = 4
    /\ qfOut.r.embedding[1][3].kind = "text"

\* C8: in every layer call made by a model forward, query_length is at
\* most the sequence length, so the slice of the first query_length
\* positions holds exactly query_length positions.
C8_QueryLengthWithinSequence ==
    qfOut.op = "model_forward" =>
        \A c \in 1..Len(qfOut.r.layer_calls) :
            /\ qfOut.r.layer_calls[c].query_length <= qfOut.r.layer_calls[c].seq_len
            /\ qfOut.r.layer_calls[c].slice_len = qfOut.r.layer_calls[c].query_length

C8_Witness ==
    /\ qfOut.op = "model_forward"
    /\ Len(qfOut.r.layer_calls) = 3
    /\ qfOut.r.layer_calls[3].query_length = 2
    /\ qfOut.r.layer_calls[3].seq_len = 3

\* ------------------------------------------ claims: attention modules
\* C6: in a forward call with encoder_hidden_states given, the keys and
\* the values come from encoder_hidden_states alone, the queries from
\* hidden_states alone, and the mask added to the scores is
\* encoder_attention_mask.
C6_CrossAttentionSources ==
    (mhaOut.op = "attention_forward"
        /\ mhaOut.given.encoder_hidden_states # "None") =>
        /\ mhaOut.r.key_src = {"encoder_hidden_states"}
        /\ mhaOut.r.value_src = {"encoder_hidden_states"}
        /\ mhaOut.r.query_src = {"hidden_states"}
        /\ mhaOut.r.mask_added = mhaOut.given.encoder_attention_mask

C6_Witness ==
    /\ mhaOut.op = "attention_forward"
    /\ mhaOut.given = [attention_mask |-> "attention_mask",
                       encoder_hidden_states |-> "encoder_hidden_states",
                       encoder_attention_mask |-> "encoder_attention_mask",
                       past_key_value |-> "past_key_value"]

AttentionModuleSound(m) ==
    m.status # "none" =>
        IF m.hidden_size % m.num_attention_heads # 0
        THEN m.status = "ValueError"
        ELSE /\ m.status = "ok"
             /\ m.attention_head_size * m.num_attention_heads = m.hidden_size

\* C7: constructing either attention module from a config whose
\* hidden_size is no multiple of num_attention_heads raises ValueError, so
\* every constructed module has head_size * num_attention_heads = hidden_size.
C7_HiddenSizeDivisible ==
    /\ AttentionModuleSound(visAttn)
    /\ AttentionModuleSound(mhaAttn)

\* --------------------------------------------------- claims: one layer
\* C10 as stated: once its self-attention has returned, a layer with
\* cross-attention called without encoder_hidden_states raises ValueError
\* before any feed-forward block, and never returns an output.
C10_MissingEncoderAlwaysRaises ==
    (lyrOut.op = "layer_forward" /\ lyrOut.r.self_attention_done
        /\ lyrOut.r.has_cross_attention /\ ~lyrOut.r.encoder_given) =>
        /\ lyrOut.r.status = "ValueError"
        /\ lyrOut.r.ffn = <<>>

\* C10 amended: the same for calls with query_length > 0; and a layer with
\* cross-attention that returns from a call with query_length > 0 was given
\* encoder_hidden_states and used them.
C10_MissingEncoderRaisesForQueries ==
    (lyrOut.op = "layer_forward" /\ lyrOut.r.has_cross_attention
        /\ lyrOut.r.query_length > 0) =>
        /\ (lyrOut.r.self_attention_done /\ ~lyrOut.r.encoder_given) =>
              (lyrOut.r.status = "ValueError" /\ lyrOut.r.ffn = <<>>)
        /\ lyrOut.r.status = "ok" =>
              (lyrOut.r.encoder_given /\ lyrOut.r.used_encoder)

C10_Witness ==
    /\ lyrOut.op = "layer_forward"
    /\ lyrOut.r.has_cross_attention
    /\ lyrOut.r.query_length > 0
    /\ ~lyrOut.r.encoder_given
    /\ lyrOut.r.status = "ValueError"

\* ------------------------------------------- claims: the model's forward
\* C11: every forward of the model on a batch of B >= 1 texts combines the
\* query tokens and their attention-mask ones with the B text rows without
\* a shape error, and an output it returns has batch dimension B.
C11_AnyBatchAccepted ==
    qfOut.op = "model_forward" =>
        /\ qfOut.r.mask_ok
        /\ qfOut.r.embed_ok
        /\ qfOut.r.status = "ok" => qfOut.r.out_shape[1] = Len(qfOut.r.lens)

\* C12: every forward with return_dict=False whose encoder ran returns the
\* projection head's output for the first num_query_tokens positions, of
\* shape (batch, num_query_tokens, hidden_size of the Q-Former).
C12_ProjectionOfQueryOutputs ==
    (/\ qfOut.op = "model_forward"
     /\ ~qfOut.r.return_dict
     /\ qfOut.r.layer_calls # <<>>
     /\ qfOut.r.layer_calls[Len(qfOut.r.layer_calls)].status = "ok") =>
        /\ qfOut.r.status = "ok"
        /\ qfOut.r.out_shape = <<Len(qfOut.r.lens), qfConfig.num_query_tokens,
                                 qfConfig.hidden_size>>

\* ------------------------------------------- claims: the owned state
\* C13 as stated: an operation on a constructed model other than a forward
\* pass leaves the model's owned state (the attention hyper-parameters, the
\* weight shapes, the pruned heads and the word embedding module) as it was.
C13_OnlyForwardChangesState ==
    ownOp.name \notin {"none", "__init__", "forward"} => own = ownPrev

\* C13 amended: forward and get_input_embeddings leave the owned state as it
\* was; set_input_embeddings changes the word embedding module only; head
\* pruning leaves the word embedding module and the config as they were
\* and changes only the attention modules it is called on: _prune_heads
\* the self-attention of layers named in heads_to_prune, whether it
\* returns or raises, and crossattention.prune_heads the cross-attention
\* of its layer.
C13_StateChangedOnlyByPruneAndSetEmbeddings ==
    /\ ownOp.name \in {"forward", "get_input_embeddings"} => own = ownPrev
    /\ ownOp.name = "set_input_embeddings" =>
          own = [ownPrev EXCEPT !.word_embeddings = own.word_embeddings]
    /\ ownOp.name = "_prune_heads" =>
          LET named == {ownOp.heads_to_prune[i][1] :
                            i \in 1..Len(ownOp.heads_to_prune)}
          IN /\ own = [ownPrev EXCEPT !.layers = own.layers]
             /\ Len(own.layers) = Len(ownPrev.layers)
             /\ \A k \in 1..Len(own.layers) :
                   /\ own.layers[k] =
                         WithSelfAttention(ownPrev.layers[k],
                                           SelfAttentionModule(own.layers[k]))
                   /\ (k - 1) \notin named => own.layers[k] = ownPrev.layers[k]
    /\ ownOp.name = "crossattention.prune_heads" =>
          /\ own = [ownPrev EXCEPT !.layers = own.layers]
          /\ Len(own.layers) = Len(ownPrev.layers)
          /\ \A k \in 1..Len(own.layers) :
                /\ own.layers[k] =
                      WithCrossAttention(ownPrev.layers[k],
                                         CrossAttentionModule(own.layers[k]))
                /\ (k - 1) # ownOp.layer => own.layers[k] = ownPrev.layers[k]

\* A _prune_heads call naming layer 0 and a layer the encoder does not
\* have raised IndexError after pruning layer 0, on a model of two layers
\* whose layer 1 is as it was.
C13_Witness ==
    /\ ownOp.name = "_prune_heads"
    /\ ownOp.status = "IndexError"
    /\ ownOp.heads_to_prune = <<<<0, {1}>>, <<2, {0}>>>>
    /\ Len(own.layers) = 2
    /\ ownPrev.layers[1].pruned_heads = {}
    /\ own.layers[1].pruned_heads = {1}
    /\ own.layers[1].attention.num_attention_heads = 1
    /\ own.layers[2] = ownPrev.layers[2]

\* ------------------------------------------- claims: the returned value
\* C14: a call that returns gives an ImagePipelineOutput holding the images
\* when return_dict is True and a tuple of length 1 holding them when it is
\* False; in both cases the images are the post-processed final sample,
\* (sample / 2 + 0.5) clamped to [0, 1], and nothing else is returned.
C14_ReturnTypeFollowsReturnDict ==
    /\ Returned =>
          LET img == IF args.return_dict THEN retval.images ELSE retval.items[1]
          IN /\ args.return_dict =>
                   (retval.type = "ImagePipelineOutput"
                       /\ DOMAIN retval = {"type", "images"})
             /\ ~args.return_dict =>
                   (retval.type = "tuple" /\ Len(retval.items) = 1)
             /\ img \in 0..8
             /\ sample.kind = "latents"
             /\ (sample.value \in (-4)..4) => img = sample.value + 4
             /\ sample.value < -4 => img = 0
             /\ sample.value > 4 => img = 8
    /\ ~Returned => retval.type = "none"

C14_Witness ==
    /\ Returned
    /\ ~args.return_dict
    /\ retval.type = "tuple"
    /\ retval.items[1] = 2

\* ------------------------------------------- claims: tensor functions
\* C15: append_dims(x, target_dims) raises ValueError when target_dims is
\* less than x.ndim; otherwise its result has exactly target_dims
\* dimensions, the first x.ndim of them x's in their order and the others
\* of size 1, holds x's elements at x's indices, and is x when
\* target_dims equals x.ndim.
C15_AppendDimsTrailing ==
    fnOut.op = "append_dims" =>
        LET x == fnOut.x
            n == Len(fnOut.x.shape)
            t == fnOut.target_dims
            r == fnOut.r
        IN /\ t < n => r.status = "ValueError"
           /\ t >= n =>
                 /\ r.status = "ok"
                 /\ Len(r.shape) = t
                 /\ SubSeq(r.shape, 1, n) = x.shape
                 /\ \A k \in (n + 1)..t : r.shape[k] = 1
                 /\ \A i \in Indices(x.shape) : r.at[i \o Ones(t - n)] = x.at[i]
           /\ t = n => (r.shape = x.shape /\ r.at = x.at)

C15_Witness ==
    /\ fnOut.op = "append_dims"
    /\ fnOut.x.shape = <<2, 1>>
    /\ fnOut.target_dims = 4
    /\ fnOut.r.status = "ok"
    /\ fnOut.r.shape = <<2, 1, 1, 1>>

\* C16: get_extended_attention_mask turns a 2-D mask [batch, seq] into
\* shape [batch, 1, 1, seq] and a 3-D mask [batch, from, to] into shape
\* [batch, 1, from, to], holding 0 where the mask is 1 and -10000 where it
\* is 0, and raises ValueError for a mask of any other number of dimensions.
C16_ExtendedMaskShapeAndValues ==
    fnOut.op = "get_extended_attention_mask" =>
        LET m == fnOut.attention_mask
            s == fnOut.attention_mask.shape
            r == fnOut.r
            value(v) == IF v = 1 THEN 0 ELSE -10000
        IN /\ Len(s) = 2 =>
                 /\ r.status = "ok"
                 /\ r.shape = <<s[1], 1, 1, s[2]>>
                 /\ \A b \in 1..s[1], j \in 1..s[2] :
                       r.at[<<b, 1, 1, j>>] = value(m.at[<<b, j>>])
           /\ Len(s) = 3 =>
                 /\ r.status = "ok"
                 /\ r.shape = <<s[1], 1, s[2], s[3]>>
                 /\ \A b \in 1..s[1], i \in 1..s[2], j \in 1..s[3] :
                       r.at[<<b, 1, i, j>>] = value(m.at[<<b, i, j>>])
           /\ Len(s) \notin {2, 3} => r.status = "ValueError"

C16_Witness ==
    /\ fnOut.op = "get_extended_attention_mask"
    /\ fnOut.attention_mask.shape = <<2, 2, 2>>
    /\ fnOut.r.status = "ok"
    /\ fnOut.r.at[<<2, 1, 1, 1>>] = 0
    /\ fnOut.r.at[<<2, 1, 1, 2>>] = -10000
    /\ fnOut.r.at[<<2, 1, 2, 2>>] = 0

\* C17: a ProjLayer forward that returns has applied dense1, the
\* activation, dense2, dropout and the residual addition, in that order,
\* and layer normalisation last.
C17_ProjLayerNormLast ==
    (fnOut.op = "proj_layer" /\ fnOut.r.status = "ok") =>
        fnOut.r.ops = <<"dense1", "act_fn", "dense2", "dropout", "residual",
                        "LayerNorm">>

\* ------------------------------------------- claims: order of the reads
\* C18: sigma_min and sigma_max are read from the scheduler before
\* set_timesteps is called, on the scheduler as it was registered; the
\* sigma schedule is read, and the loop entered, only after set_timesteps;
\* the local sigma_min is not assigned again once read, and every denoise
\* call that binds its parameter sigma_min binds it to that value.
C18_SigmaMinReadBeforeSetTimesteps ==
    /\ [](/\ \A k \in 1..Len(events) :
                events[k] = "set_timesteps" =>
                    /\ \E j \in 1..(k - 1) : events[j] = "get_sigma_min_max"
                    /\ \A j \in k..Len(events) : events[j] # "get_sigma_min_max"
          /\ \A k \in 1..Len(events) :
                events[k] \in {"get_sigmas", "stochastic", "karras", "denoise"} =>
                    \E j \in 1..(k - 1) : events[j] = "set_timesteps"
          /\ pc = "set_timesteps" =>
                /\ setTimestepsCalls = 0
                /\ sigma_min = get_sigma_min_max_from_scheduler(
                                schedAttrs, schedSigmaMinMax, schedSigmas)[2]
          /\ lastDenoise.status # "none" =>
                \A i \in 1..Len(lastDenoise.sigma_min_bound) :
                    lastDenoise.sigma_min_bound[i] = sigma_min)
    /\ [][pc \notin {"idle", "sigma_min_max"} => sigma_min' = sigma_min]_vars

\* A denoise call of the Karras loop received the sigma_min read before
\* set_timesteps, which is not the last sigma of the schedule set since.
C18_Witness ==
    /\ Entered("karras")
    /\ lastDenoise.status # "none"
    /\ lastDenoise.sigma_min_bound = <<1>>
    /\ sigma_min = 1
    /\ PyIndex(schedSigmas, -1) = 0
    /\ "sigma_min" \notin schedAttrs

\* ------------------------------------------- claims: the stochastic loop
\* C19: with a scheduler that has add_noise_to_input and more than one
\* timestep, a call that has ended has returned, after one evaluation of
\* the model and then, for each remaining timestep in order,
\* add_noise_to_input, one evaluation of the model and scheduler.step: the
\* model was evaluated exactly len(timesteps) times.
C19_StochasticLoopAlternates ==
    (pc = "done" /\ Entered("stochastic") /\ Len(timesteps) > 1) =>
        /\ Returned
        /\ unetCalls = Len(timesteps)
        /\ addNoiseCalls = Len(timesteps) - 1
        /\ stepCalls = Len(timesteps) - 1
        /\ LoopEvents("stochastic") =
              [j \in 1..(3 * Len(timesteps) - 2) |->
                  IF j = 1 \/ j % 3 = 0 THEN "denoise"
                  ELSE IF j % 3 = 2 THEN "add_noise" ELSE "step"]

C21_CrossAttentionsAreProbabilities ==
    (/\ qfOut.op = "encoder_forward"
     /\ qfOut.r.status = "ok"
     /\ qfOut.r.output_attentions) =>
        LET crossLayers == {k \in 1..Len(qfLayers) : qfLayers[k].has_cross_attention}
            idx(j) == CHOOSE k \in crossLayers :
                          Cardinality({i \in crossLayers : i < k}) = j - 1
        IN /\ Len(qfOut.r.attentions) = Len(qfLayers)
           /\ \A k \in 1..Len(qfLayers) :
                 qfOut.r.attentions[k] =
                     [kind |-> "attention_probs", of |-> "self", layer |-> k - 1]
           /\ Len(qfOut.r.cross_attentions) = Cardinality(crossLayers)
           /\ \A j \in 1..Len(qfOut.r.cross_attentions) :
                 /\ qfOut.r.cross_attentions[j].kind # "key_value"
                 /\ qfOut.r.cross_attentions[j] =
                       [kind |-> "attention_probs", of |-> "cross",
                        layer |-> idx(j) - 1]

====
